---- MODULE Spec2Model ----
(***************************************************************************)
(* Model of the marimo example notebooks of ai-visual-test: the pydantic   *)
(* response models (examples/marimo/models.py), the validation pipeline of *)
(* basic_validation.py (Step 1 .. Step 4) and the result cells of          *)
(* persona_testing.py (Step 3, Step 4).                                    *)
(*                                                                         *)
(* Spec is one run of basic_validation.py; PersonaSpec is the result cells *)
(* of persona_testing.py applied to a results list; MockSpec is Step 2 of  *)
(* persona_testing.py, which builds the mock results; SessionSpec is a     *)
(* kernel session in which cells are run again; ConcurrentSpec is two      *)
(* executions of Step 3 in one working directory.                          *)
(*                                                                         *)
(* Numbers are fixed-point: the field n of a value holds the number in     *)
(* tenths (8.2 is 82, the integer 10 is 100), so that the ranges [0,10]    *)
(* and [0,1] and their neighbours are all representable.                   *)
(***************************************************************************)
EXTENDS Integers, Sequences, FiniteSets, TLC

VARIABLES pc, screenshot_exists, script_exists, screenshot_available,
          image_info, process, raw_result, result, raised, rendered,
          results, table, details, step2, parses, script_file, executions

\* basic_validation.py
basic_vars == <<pc, screenshot_exists, script_exists, screenshot_available,
                image_info, process, raw_result, result, raised, rendered>>
\* persona_testing.py: the results list, what Step 3 and Step 4 made of it,
\* and the run of Step 2
persona_vars == <<results, table, details, step2>>
\* the parses of a session, in the order they were made
session_vars == <<parses>>
\* temp_validate.mjs and the executions of Step 3 that share it
concurrent_vars == <<script_file, executions>>

vars == <<basic_vars, persona_vars, session_vars, concurrent_vars>>

(***************************************************************************)
(* Values: what json.loads returns and what a model field holds.  Every    *)
(* value has the same five slots: k the kind, n the number (tenths),       *)
(* s the string (or the class name of a model instance), l the elements    *)
(* of a list, d the entries of a dict / the fields of a model instance.    *)
(***************************************************************************)
Val(k, n, s, l, d) == [k |-> k, n |-> n, s |-> s, l |-> l, d |-> d]

Tenths(i) == i * 10

JNull == Val("null", 0, "", <<>>, <<>>)
JBool(b) == Val("bool", IF b THEN Tenths(1) ELSE 0, "", <<>>, <<>>)
JInt(i) == Val("int", Tenths(i), "", <<>>, <<>>)
JFloat(t) == Val("float", t, "", <<>>, <<>>)
JStr(s) == Val("str", 0, s, <<>>, <<>>)
JList(l) == Val("list", 0, "", l, <<>>)
JDict(d) == Val("dict", 0, "", <<>>, d)
Instance(cls, d) == Val("model", 0, cls, <<>>, d)

(***************************************************************************)
(* pydantic-core, lax mode (the models set no strict flag): the scalar     *)
(* validators.  A validator returns ok, the validated value and the error  *)
(* entries (loc relative to the value, type as pydantic names it); it is   *)
(* ok when there are no entries.                                           *)
(***************************************************************************)
Err(loc, type) == [loc |-> loc, type |-> type]
Valid(v) == [out |-> v, errs |-> {}]
Invalid(type) == [out |-> JNull, errs |-> {Err(<<>>, type)}]
Ok(r) == r.errs = {}

\* the strings lax mode reads as booleans
BoolTrueStrings == {"1", "on", "t", "true", "y", "yes"}
BoolFalseStrings == {"0", "off", "f", "false", "n", "no"}

\* str -> int and str -> float parsing, on the numeric strings of the model
\* (int(s) in units, float(s) in tenths)
IntLiterals == [s \in {"0", "1", "7", "11", "1400"} |->
                  CASE s = "0" -> 0 [] s = "1" -> 1 [] s = "7" -> 7
                    [] s = "11" -> 11 [] s = "1400" -> 1400]
FloatLiterals == [s \in DOMAIN IntLiterals \cup {"0.5", "8.2", "10.5"} |->
                    CASE s \in DOMAIN IntLiterals -> Tenths(IntLiterals[s])
                      [] s = "0.5" -> 5 [] s = "8.2" -> 82 [] s = "10.5" -> 105]

ValidateBool(v) ==
    CASE v.k = "bool" -> Valid(v)
      [] v.k \in {"int", "float"} ->
            IF v.n = 0 THEN Valid(JBool(FALSE))
            ELSE IF v.n = Tenths(1) THEN Valid(JBool(TRUE))
            ELSE Invalid("bool_parsing")
      [] v.k = "str" ->
            IF v.s \in BoolTrueStrings THEN Valid(JBool(TRUE))
            ELSE IF v.s \in BoolFalseStrings THEN Valid(JBool(FALSE))
            ELSE Invalid("bool_parsing")
      [] OTHER -> Invalid("bool_type")

ValidateStr(v) ==
    IF v.k = "str" THEN Valid(v) ELSE Invalid("string_type")

ValidateInt(v) ==
    CASE v.k = "int" -> Valid(v)
      [] v.k = "bool" -> Valid(Val("int", v.n, "", <<>>, <<>>))
      [] v.k = "float" ->
            IF v.n % 10 = 0 THEN Valid(Val("int", v.n, "", <<>>, <<>>))
            ELSE Invalid("int_from_float")
      [] v.k = "str" ->
            IF v.s \in DOMAIN IntLiterals THEN Valid(JInt(IntLiterals[v.s]))
            ELSE Invalid("int_parsing")
      [] OTHER -> Invalid("int_type")

\* mutant: the float validator drops the fraction
ValidateFloatTruncating(v) ==
    CASE v.k \in {"float", "int", "bool"} -> Valid(JFloat(v.n - (v.n % 10)))
      [] v.k = "str" ->
            IF v.s \in DOMAIN FloatLiterals THEN Valid(JFloat(FloatLiterals[v.s]))
            ELSE Invalid("float_parsing")
      [] OTHER -> Invalid("float_type")

ValidateFloat(v) ==
    CASE v.k = "float" -> Valid(v)
      [] v.k \in {"int", "bool"} -> Valid(JFloat(v.n))
      [] v.k = "str" ->
            IF v.s \in DOMAIN FloatLiterals THEN Valid(JFloat(FloatLiterals[v.s]))
            ELSE Invalid("float_parsing")
      [] OTHER -> Invalid("float_type")

\* mutant: gt / lt in place of ge / le
ConstrainExclusive(r, ft) ==
    IF ~Ok(r) THEN r
    ELSE IF ft.hasGe /\ r.out.n <= ft.ge THEN Invalid("greater_than")
    ELSE IF ft.hasLe /\ r.out.n >= ft.le THEN Invalid("less_than")
    ELSE r

\* Field(ge=..., le=...): the constraints apply to the validated number
Constrain(r, ft) ==
    IF ~Ok(r) THEN r
    ELSE IF ft.hasGe /\ r.out.n < ft.ge THEN Invalid("greater_than_equal")
    ELSE IF ft.hasLe /\ r.out.n > ft.le THEN Invalid("less_than_equal")
    ELSE r

(***************************************************************************)
(* Field declarations of models.py.                                        *)
(***************************************************************************)
FieldType(type, elem, sub, optional, required, default) ==
    [type |-> type, elem |-> elem, sub |-> sub, optional |-> optional,
     required |-> required, default |-> default,
     hasGe |-> FALSE, ge |-> 0, hasLe |-> FALSE, le |-> 0]

\* mutant: a required field declared with a None default
ReqDefaulted(type) == FieldType(type, "", "", FALSE, FALSE, JNull)
\* x: T
Req(type) == FieldType(type, "", "", FALSE, TRUE, JNull)
\* x: Optional[T] = None
Opt(type) == FieldType(type, "", "", TRUE, FALSE, JNull)
\* mutant: every ranged field declared with le=1
OptRangeUnit(type, lo, hi) ==
    [Opt(type) EXCEPT !.hasGe = TRUE, !.ge = Tenths(lo),
                      !.hasLe = TRUE, !.le = Tenths(1)]
\* x: Optional[float] = Field(None, ge=lo, le=hi), lo and hi in units
OptRange(type, lo, hi) ==
    [Opt(type) EXCEPT !.hasGe = TRUE, !.ge = Tenths(lo),
                      !.hasLe = TRUE, !.le = Tenths(hi)]
\* x: list[str] = Field(default_factory=list)
ListOfStr == FieldType("list", "str", "", FALSE, FALSE, JList(<<>>))
\* x: Optional[Model] = None
OptModel(cls) == FieldType("model", "", cls, TRUE, FALSE, JNull)
\* x: Model
ReqModel(cls) == FieldType("model", "", cls, FALSE, TRUE, JNull)
\* x: list[Model] = Field(default_factory=list)
ListOfModel(cls) == FieldType("list", "", cls, FALSE, FALSE, JList(<<>>))
\* x: dict = Field(default_factory=dict)
DictDefaulted == FieldType("dict", "", "", FALSE, FALSE, JDict(<<>>))

EstimatedCostSchema ==
    [inputTokens |-> Req("int"),
     outputTokens |-> Req("int"),
     inputCost |-> Req("str"),
     outputCost |-> Req("str"),
     totalCost |-> Req("str"),
     currency |-> FieldType("str", "", "", FALSE, FALSE, JStr("USD"))]

ViewportSchema ==
    [width |-> Req("int"),
     height |-> Req("int")]

SemanticInfoSchema ==
    [score |-> OptRange("float", 0, 10),
     issues |-> ListOfStr,
     assessment |-> Opt("str"),
     reasoning |-> Req("str"),
     brutalistViolations |-> FieldType("list", "str", "", TRUE, FALSE, JNull),
     zeroToleranceViolations |-> FieldType("list", "str", "", TRUE, FALSE, JNull)]

ValidationResultSchema ==
    [enabled |-> Req("bool"),
     provider |-> Req("str"),
     score |-> OptRange("float", 0, 10),
     issues |-> ListOfStr,
     assessment |-> Opt("str"),
     reasoning |-> Req("str"),
     estimatedCost |-> OptModel("EstimatedCost"),
     responseTime |-> Req("int"),
     cached |-> FieldType("bool", "", "", TRUE, FALSE, JBool(FALSE)),
     judgment |-> Opt("str"),
     raw |-> Opt("dict"),
     semantic |-> OptModel("SemanticInfo"),
     error |-> Opt("str"),
     message |-> Opt("str"),
     pricing |-> FieldType("dict", "float", "", TRUE, FALSE, JNull),
     timestamp |-> Opt("str"),
     testName |-> Opt("str"),
     viewport |-> OptModel("Viewport"),
     uncertainty |-> OptRange("float", 0, 1),
     confidence |-> OptRange("float", 0, 1),
     screenshotPath |-> Opt("str"),
     selfConsistencyRecommended |-> Opt("bool"),
     selfConsistencyN |-> Opt("int"),
     selfConsistencyReason |-> Opt("str")]

PersonaSchema ==
    [name |-> Req("str"),
     perspective |-> Req("str"),
     focus |-> ListOfStr]

TemporalScreenshotSchema ==
    [path |-> Req("str"),
     timestamp |-> Req("int"),
     elapsed |-> Req("int"),
     step |-> Opt("str"),
     description |-> Opt("str")]

TemporalNoteSchema ==
    [step |-> Req("str"),
     persona |-> Opt("str"),
     observation |-> Opt("str"),
     timestamp |-> Req("int"),
     elapsed |-> Req("int"),
     pageState |-> Opt("dict"),
     renderedCode |-> Opt("dict")]

RenderedCodeSchema ==
    [html |-> Req("str"),
     css |-> Opt("str"),
     criticalCSS |-> FieldType("dict", "dict_str", "", TRUE, FALSE, JNull),
     domStructure |-> DictDefaulted]

\* Literal["human", "mechanical"]
TimeScales == {"human", "mechanical"}

PersonaExperienceResultSchema ==
    [persona |-> ReqModel("Persona"),
     notes |-> ListOfModel("TemporalNote"),
     screenshots |-> ListOfModel("TemporalScreenshot"),
     renderedCode |-> OptModel("RenderedCode"),
     gameState |-> Opt("dict"),
     evaluation |-> OptModel("ValidationResult"),
     timestamp |-> Req("int"),
     device |-> Opt("str"),
     viewport |-> OptModel("Viewport"),
     duration |-> Opt("int"),
     timeScale |-> Opt("literal"),
     trace |-> Opt("dict"),
     aggregated |-> Opt("dict"),
     aggregatedMultiScale |-> Opt("dict")]

Schema(cls) ==
    CASE cls = "ValidationResult" -> ValidationResultSchema
      [] cls = "EstimatedCost" -> EstimatedCostSchema
      [] cls = "Viewport" -> ViewportSchema
      [] cls = "SemanticInfo" -> SemanticInfoSchema
      [] cls = "Persona" -> PersonaSchema
      [] cls = "TemporalScreenshot" -> TemporalScreenshotSchema
      [] cls = "TemporalNote" -> TemporalNoteSchema
      [] cls = "RenderedCode" -> RenderedCodeSchema
      [] cls = "PersonaExperienceResult" -> PersonaExperienceResultSchema

\* mutants: model_config = ConfigDict(extra="forbid"), ConfigDict(extra="allow")
ExtraForbid == "forbid"
ExtraAllow == "allow"
\* BaseModel's default model_config: keys that are no field are ignored
ExtraBehavior == "ignore"

(***************************************************************************)
(* BaseModel.model_validate: every declared field is validated, all the    *)
(* errors are collected, and an instance exists only when there are none.  *)
(***************************************************************************)
ValidateLiteral(v) ==
    IF v.k = "str" /\ v.s \in TimeScales THEN Valid(v) ELSE Invalid("literal_error")

ValidateScalar(type, v) ==
    CASE type = "bool" -> ValidateBool(v)
      [] type = "str" -> ValidateStr(v)
      [] type = "int" -> ValidateInt(v)
      [] type = "float" -> ValidateFloat(v)
      [] type = "literal" -> ValidateLiteral(v)

Prefixed(key, errs) == {Err(<<key>> \o e.loc, e.type) : e \in errs}

RECURSIVE ValidateModel(_, _)

\* mutant: the validated list in reverse order
ListResultReversed(v, rs) ==
    [out |-> JList([i \in DOMAIN v.l |-> rs[Len(v.l) + 1 - i].out]),
     errs |-> UNION {Prefixed(ToString(i - 1), rs[i].errs) : i \in DOMAIN v.l}]

\* list[str], list[Model]: rs are the results of the elements
ListResult(v, rs) ==
    [out |-> JList([i \in DOMAIN v.l |-> rs[i].out]),
     errs |-> UNION {Prefixed(ToString(i - 1), rs[i].errs) : i \in DOMAIN v.l}]

ValidateList(ft, v) ==
    IF v.k # "list" THEN Invalid("list_type")
    ELSE ListResult(v, [i \in DOMAIN v.l |->
                          IF ft.sub # "" THEN ValidateModel(ft.sub, v.l[i])
                          ELSE ValidateScalar(ft.elem, v.l[i])])

\* dict, dict[str, float], dict[str, dict[str, str]]: rs are the results of
\* the values
DictResult(v, rs) ==
    [out |-> JDict([key \in DOMAIN v.d |-> rs[key].out]),
     errs |-> UNION {Prefixed(key, rs[key].errs) : key \in DOMAIN v.d}]

\* dict[str, str]
ValidateStrDict(v) ==
    IF v.k # "dict" THEN Invalid("dict_type")
    ELSE DictResult(v, [key \in DOMAIN v.d |-> ValidateStr(v.d[key])])

ValidateDict(ft, v) ==
    IF v.k # "dict" THEN Invalid("dict_type")
    ELSE IF ft.elem = "" THEN Valid(v)
    ELSE DictResult(v, [key \in DOMAIN v.d |->
                          IF ft.elem = "dict_str" THEN ValidateStrDict(v.d[key])
                          ELSE ValidateScalar(ft.elem, v.d[key])])

\* mutant: a result with enabled=false keeps no score, issues or assessment
ModelResultDisabledCleared(cls, v, rs) ==
    [out |-> Instance(cls, [f \in DOMAIN rs |->
                              IF /\ cls = "ValidationResult"
                                 /\ rs["enabled"].out = JBool(FALSE)
                                 /\ f \in {"score", "issues", "assessment"}
                              THEN Schema(cls)[f].default ELSE rs[f].out]),
     errs |-> UNION {Prefixed(f, rs[f].errs) : f \in DOMAIN rs}]

\* the instance and the errors, from the results rs of the declared fields
ModelResult(cls, v, rs) ==
    [out |-> Instance(cls, [f \in DOMAIN rs \cup (IF ExtraBehavior = "allow"
                                                  THEN DOMAIN v.d ELSE {}) |->
                              IF f \in DOMAIN rs THEN rs[f].out ELSE v.d[f]]),
     errs |-> UNION {Prefixed(f, rs[f].errs) : f \in DOMAIN rs}
              \cup (IF ExtraBehavior = "forbid"
                    THEN {Err(<<key>>, "extra_forbidden") : key \in DOMAIN v.d \ DOMAIN rs}
                    ELSE {})]

ValidateField(ft, v) ==
    IF ft.optional /\ v.k = "null" THEN Valid(JNull)
    ELSE CASE ft.type = "list" -> ValidateList(ft, v)
           [] ft.type = "dict" -> ValidateDict(ft, v)
           [] ft.type = "model" -> ValidateModel(ft.sub, v)
           [] OTHER -> Constrain(ValidateScalar(ft.type, v), ft)

\* mutant: an absent field that is not required is None, whatever its default
FieldResultNone(ft, f, v) ==
    IF f \in DOMAIN v.d THEN ValidateField(ft, v.d[f])
    ELSE IF ft.required THEN Invalid("missing")
    ELSE Valid(JNull)

\* a declared field: validated when the key is there, else required or defaulted
FieldResult(ft, f, v) ==
    IF f \in DOMAIN v.d THEN ValidateField(ft, v.d[f])
    ELSE IF ft.required THEN Invalid("missing")
    ELSE Valid(ft.default)

ValidateModel(cls, v) ==
    IF v.k # "dict" THEN Invalid("model_type")
    ELSE ModelResult(cls, v, [f \in DOMAIN Schema(cls) |->
                                FieldResult(Schema(cls)[f], f, v)])

(***************************************************************************)
(* Python exceptions and the outcome of a call: a returned value or a      *)
(* raised exception (errs: the entries of a pydantic ValidationError).     *)
(***************************************************************************)
ExcParent ==
    [e \in {"ValidationError", "JSONDecodeError", "ValueError", "FileNotFoundError",
            "PermissionError", "OSError", "AttributeError", "UnidentifiedImageError",
            "Exception"} |->
        CASE e \in {"ValidationError", "JSONDecodeError"} -> "ValueError"
          [] e \in {"FileNotFoundError", "PermissionError", "UnidentifiedImageError"} -> "OSError"
          [] e \in {"ValueError", "OSError", "AttributeError"} -> "Exception"
          [] e = "Exception" -> "BaseException"]

RECURSIVE IsSubclass(_, _)
IsSubclass(exc, cls) ==
    \/ exc = cls
    \/ exc \in DOMAIN ExcParent /\ IsSubclass(ExcParent[exc], cls)

Return(v) == [exc |-> "none", val |-> v, errs |-> {}]
Raise(exc, errs) == [exc |-> exc, val |-> JNull, errs |-> errs]

\* model_validate returns the instance or raises ValidationError
Outcome(r) ==
    IF Ok(r) THEN Return(r.out) ELSE Raise("ValidationError", r.errs)

ModelValidate(cls, v) == Outcome(ValidateModel(cls, v))

(***************************************************************************)
(* Text written by the node process: either the JSON serialisation of doc  *)
(* (json = TRUE) or some other string s (json = FALSE).                    *)
(***************************************************************************)
JsonText(doc) == [json |-> TRUE, doc |-> doc, s |-> ""]
PlainText(s) == [json |-> FALSE, doc |-> JNull, s |-> s]

\* json.loads
JsonLoads(text) ==
    IF text.json THEN Return(text.doc) ELSE Raise("JSONDecodeError", {})

\* error_data.get(key, default): only a dict has .get
DictGet(v, key, default) ==
    IF v.k # "dict" THEN Raise("AttributeError", {})
    ELSE Return(IF key \in DOMAIN v.d THEN v.d[key] ELSE default)

(***************************************************************************)
(* The values Step 3 binds to result: None, a ValidationResult instance,   *)
(* or a dict with an "error" entry.  source tells how the error entry was  *)
(* built: "Validation error" and "JSON parse error" are the prefixes of    *)
(* the two f-strings, "stderr.error" the entry read from the JSON on       *)
(* stderr, "stderr" the stderr text, and a class name str(e) of the        *)
(* exception caught by the outer handler.                                  *)
(***************************************************************************)
NoText == PlainText("")
Unbound == Val("unbound", 0, "", <<>>, <<>>)

ResultRecord(kind, inst, keys, source, errs, error, raw_data, text) ==
    [kind |-> kind, inst |-> inst, keys |-> keys, source |-> source, errs |-> errs,
     error |-> error, raw_data |-> raw_data, text |-> text]

\* mutant: the skip branch binds an error value
SkippedAsError == ResultRecord("dict", JNull, {"error"}, "skipped", {}, JNull, JNull, NoText)
\* result = None
NoneResult == ResultRecord("None", JNull, {}, "", {}, JNull, JNull, NoText)
InstanceResult(inst) ==
    ResultRecord("ValidationResult", inst, {}, "", {}, JNull, JNull, NoText)

\* mutant: the handler merges the raw document into the error dict
OnValidationErrorMerging(e, raw) ==
    ResultRecord("dict", JNull, {"error", "raw_data"} \cup DOMAIN raw.d,
                 "Validation error", e.errs, JNull, raw, NoText)

\* except ValidationError as e: result = {"error": f"Validation error: {e}", "raw_data": raw_result}
OnValidationError(e, raw) ==
    ResultRecord("dict", JNull, {"error", "raw_data"}, "Validation error", e.errs,
                 JNull, raw, NoText)

\* mutant: the handler also stores the raw_result that an earlier run left
OnJSONDecodeErrorStale(e, stdout) ==
    ResultRecord("dict", JNull, {"error", "raw_output"}, "JSON parse error", {},
                 JNull, raw_result, stdout)

\* except json.JSONDecodeError as e: result = {"error": f"JSON parse error: {e}", "raw_output": process.stdout}
OnJSONDecodeError(e, stdout) ==
    ResultRecord("dict", JNull, {"error", "raw_output"}, "JSON parse error", {},
                 JNull, JNull, stdout)

\* mutant: except ValueError as the first clause
FirstHandlerCatchesValueError(exc) == IsSubclass(exc, "ValueError")
\* the except clauses of the inner try, in the order of the code
FirstHandlerCatches(exc) == IsSubclass(exc, "ValidationError")
SecondHandlerCatches(exc) == IsSubclass(exc, "JSONDecodeError")
\* mutant: except ValueError in place of except Exception
OuterHandlerCatchesValueError(exc) == IsSubclass(exc, "ValueError")
\* except Exception as e (the outer try)
OuterHandlerCatches(exc) == IsSubclass(exc, "Exception")

\* the inner try: tried is what its body returned or raised, raw the
\* raw_result bound so far
InnerTry(tried, raw, stdout) ==
    IF tried.exc = "none" THEN Return(InstanceResult(tried.val))
    ELSE IF FirstHandlerCatches(tried.exc) THEN Return(OnValidationError(tried, raw))
    ELSE IF SecondHandlerCatches(tried.exc) THEN Return(OnJSONDecodeError(tried, stdout))
    ELSE tried

\* returncode == 0: json.loads, then model_validate
Loaded(loaded, stdout) ==
    IF loaded.exc # "none"
    THEN [raw |-> Unbound, out |-> InnerTry(loaded, Unbound, stdout)]
    ELSE [raw |-> loaded.val,
          out |-> InnerTry(ModelValidate("ValidationResult", loaded.val),
                           loaded.val, stdout)]

ParseStdout(stdout) == Loaded(JsonLoads(stdout), stdout)

\* returncode != 0: the error entry of the JSON on stderr, else stderr itself
\* (the bare except catches whatever json.loads or .get raises)
StderrResult(got, stderr) ==
    IF got.exc = "none"
    THEN ResultRecord("dict", JNull, {"error"}, "stderr.error", {}, got.val, JNull, stderr)
    ELSE ResultRecord("dict", JNull, {"error"}, "stderr", {}, JNull, JNull, stderr)

ErrorEntry(loaded, stderr) ==
    IF loaded.exc # "none" THEN loaded
    ELSE DictGet(loaded.val, "error", JStr(stderr.s))

ParseStderr(stderr) == StderrResult(ErrorEntry(JsonLoads(stderr), stderr), stderr)

\* the process object of subprocess.run; attempted without launched is the
\* call that raised (node is not installed)
Process(attempted, launched, returncode, stdout, stderr) ==
    [attempted |-> attempted, launched |-> launched, returncode |-> returncode,
     stdout |-> stdout, stderr |-> stderr]
NoProcess == Process(FALSE, FALSE, 0, NoText, NoText)

\* the body of the outer try
TryBody(proc) ==
    IF ~proc.launched THEN [raw |-> Unbound, out |-> Raise("FileNotFoundError", {})]
    ELSE IF proc.returncode = 0 THEN ParseStdout(proc.stdout)
    ELSE [raw |-> Unbound, out |-> Return(ParseStderr(proc.stderr))]

\* except Exception as e: result = {"error": str(e)}
OuterTry(tried) ==
    [raw |-> tried.raw,
     out |-> IF tried.out.exc = "none" THEN tried.out
             ELSE IF OuterHandlerCatches(tried.out.exc)
                  THEN Return(ResultRecord("dict", JNull, {"error"}, tried.out.exc, {},
                                           JNull, JNull, NoText))
             ELSE tried.out]

\* the try statement of Step 3: the outcome and the raw_result it bound
RunPipeline(proc) == OuterTry(TryBody(proc))

(***************************************************************************)
(* The inputs: what the node process can print.  A payload is one of the   *)
(* base documents with at most MaxOverrides keys replaced by a probe value *)
(* of the right type, of a type lax mode coerces, of a wrong type, or      *)
(* removed.                                                                *)
(***************************************************************************)
MaxOverrides == 1

Absent == Val("absent", 0, "", <<>>, <<>>)

Strs(seq) == JList([i \in DOMAIN seq |-> JStr(seq[i])])

BoolProbes == {JBool(TRUE), JBool(FALSE), JInt(1), JInt(7), JStr("yes"), JStr("gemini"),
               JList(<<>>)}
StrProbes == {JStr("gemini"), JStr(""), JInt(7), JBool(TRUE), Strs(<<"contrast">>)}
FloatProbes == {JInt(-1), JInt(0), JInt(1), JInt(10), JInt(11),
                JFloat(-5), JFloat(5), JFloat(15), JFloat(82), JFloat(105),
                JStr("0.5"), JStr("11"), JStr("gemini"), JBool(TRUE), JList(<<>>)}
IntProbes == {JInt(-1), JInt(0), JInt(1400), JFloat(15), JFloat(14000),
              JStr("1400"), JStr("gemini"), JBool(TRUE), JDict(<<>>)}
ListProbes == {Strs(<<>>), Strs(<<"contrast", "alt text">>), Strs(<<"alt text", "contrast">>),
               JList(<<JStr("contrast"), JInt(1)>>), JStr("contrast"), JDict(<<>>)}
DictProbes == {JDict(<<>>), JDict([model |-> JStr("gemini")]), JList(<<>>)}
PricingProbes == {JDict([input |-> JFloat(5), output |-> JInt(1)]),
                  JDict([input |-> JStr("0.5")]), JDict([input |-> JStr("gemini")]),
                  JList(<<>>)}

CostDoc == [inputTokens |-> JInt(1400), outputTokens |-> JInt(7),
            inputCost |-> JStr("0.5"), outputCost |-> JStr("0.5"),
            totalCost |-> JStr("1")]
CostProbes == {JDict(CostDoc),
               JDict([k \in DOMAIN CostDoc \cup {"currency"} |->
                        IF k = "currency" THEN JStr("EUR") ELSE CostDoc[k]]),
               JDict([k \in DOMAIN CostDoc \ {"totalCost"} |-> CostDoc[k]]),
               JDict([CostDoc EXCEPT !.inputTokens = JStr("7")]),
               JDict(<<>>), JStr("0.5")}
ViewportProbes == {JDict([width |-> JInt(1400), height |-> JInt(7)]),
                   JDict([width |-> JInt(1400)]), JInt(1400)}
SemanticProbes == {JDict([reasoning |-> JStr("clear layout")]),
                   JDict([reasoning |-> JStr("clear layout"), score |-> JInt(11),
                          issues |-> Strs(<<"contrast">>)]),
                   JDict([reasoning |-> JStr("clear layout"), score |-> JFloat(82),
                          issues |-> Strs(<<"contrast", "alt text">>)]),
                   JDict(<<>>), JStr("clear layout")}
UnknownProbes == {JBool(TRUE), JInt(7), JStr("gemini"), Strs(<<"contrast">>)}

\* keys that no model declares
UnknownKeys == {"futureFlag", "schemaVersion"}

Keys == <<"enabled", "provider", "score", "issues", "assessment", "reasoning",
          "estimatedCost", "responseTime", "cached", "judgment", "raw", "semantic",
          "error", "message", "pricing", "timestamp", "testName", "viewport",
          "uncertainty", "confidence", "screenshotPath",
          "selfConsistencyRecommended", "selfConsistencyN", "selfConsistencyReason",
          "futureFlag", "schemaVersion">>

ProbesFor(key) ==
    {JNull, Absent} \cup
    (IF key \in UnknownKeys THEN UnknownProbes
     ELSE LET ft == ValidationResultSchema[key]
          IN CASE ft.type = "bool" -> BoolProbes
               [] ft.type = "str" -> StrProbes
               [] ft.type = "float" -> FloatProbes
               [] ft.type = "int" -> IntProbes
               [] ft.type = "list" -> ListProbes
               [] ft.type = "dict" -> IF ft.elem = "" THEN DictProbes ELSE PricingProbes
               [] ft.sub = "EstimatedCost" -> CostProbes
               [] ft.sub = "Viewport" -> ViewportProbes
               [] ft.sub = "SemanticInfo" -> SemanticProbes)

\* the evaluation of the mock results of persona_testing.py
MockEvaluation ==
    [enabled |-> JBool(TRUE), provider |-> JStr("gemini"), score |-> JFloat(82),
     issues |-> Strs(<<"Minor accessibility concern">>),
     assessment |-> JStr("Good experience"), reasoning |-> JStr("clear layout"),
     responseTime |-> JInt(2500), cached |-> JBool(FALSE)]
MinimalEnabled ==
    [enabled |-> JBool(TRUE), provider |-> JStr("gemini"),
     reasoning |-> JStr("clear layout"), responseTime |-> JInt(1400)]
\* what is printed when no API key is configured
DisabledPayload ==
    [enabled |-> JBool(FALSE), message |-> JStr("API key not configured")]
DisabledComplete ==
    [enabled |-> JBool(FALSE), provider |-> JStr("gemini"), reasoning |-> JStr(""),
     responseTime |-> JInt(0), message |-> JStr("API key not configured")]
FullPayload ==
    [enabled |-> JBool(TRUE), provider |-> JStr("gemini"), score |-> JInt(10),
     issues |-> Strs(<<"contrast", "alt text">>), assessment |-> JStr("pass"),
     reasoning |-> JStr("clear layout"), estimatedCost |-> JDict(CostDoc),
     responseTime |-> JInt(1400), cached |-> JBool(TRUE), judgment |-> JStr("ok"),
     raw |-> JDict([model |-> JStr("gemini")]),
     semantic |-> JDict([reasoning |-> JStr("clear layout"), score |-> JFloat(82),
                         issues |-> Strs(<<"contrast", "alt text">>)]),
     error |-> JNull, message |-> JNull,
     pricing |-> JDict([input |-> JFloat(5), output |-> JInt(1)]),
     timestamp |-> JStr("2024-01-01T00:00:00Z"), testName |-> JStr("general"),
     viewport |-> JDict([width |-> JInt(1400), height |-> JInt(7)]),
     uncertainty |-> JFloat(5), confidence |-> JInt(1),
     screenshotPath |-> JStr("screenshot.png"),
     selfConsistencyRecommended |-> JBool(FALSE), selfConsistencyN |-> JInt(7),
     selfConsistencyReason |-> JStr(""), futureFlag |-> JBool(TRUE)]
\* a backend that reports everything on the wrong scale
OutOfRangePayload ==
    [enabled |-> JBool(TRUE), provider |-> JStr("gemini"), score |-> JFloat(15),
     reasoning |-> JStr("clear layout"), responseTime |-> JInt(1400),
     uncertainty |-> JFloat(15), confidence |-> JFloat(-5)]

Bases == {MockEvaluation, MinimalEnabled, DisabledPayload, DisabledComplete,
          FullPayload, OutOfRangePayload}

Override(p, key, v) ==
    IF v = Absent THEN [k \in DOMAIN p \ {key} |-> p[k]]
    ELSE [k \in DOMAIN p \cup {key} |-> IF k = key THEN v ELSE p[k]]

\* the overrides: at most n pairs <<i, v>>, key Keys[i] set to v, i increasing from from
ProbePairs(from) == UNION {{i} \X ProbesFor(Keys[i]) : i \in from..Len(Keys)}

RECURSIVE OverrideSeqs(_, _)
OverrideSeqs(n, from) ==
    IF n = 0 THEN {<<>>}
    ELSE {<<>>} \cup UNION {{<<iv>> \o rest : rest \in OverrideSeqs(n - 1, iv[1] + 1)} :
                              iv \in ProbePairs(from)}

RECURSIVE Overridden(_, _)
Overridden(p, ovs) ==
    IF ovs = <<>> THEN p
    ELSE Overridden(Override(p, Keys[Head(ovs)[1]], Head(ovs)[2]), Tail(ovs))

\* JSON documents that are no object
NonObjects == {JList(<<>>), JList(<<JDict(MinimalEnabled)>>), JInt(7), JStr("ok"),
               JNull, JBool(TRUE)}

\* what is on stdout when it is no payload
OtherStdouts == {JsonText(v) : v \in NonObjects}
                \cup {PlainText(""), PlainText("Validation completed")}

\* console.error(JSON.stringify({ error: err.message, stack: err.stack })), or
\* whatever node itself writes
Stderrs == {JsonText(JDict([error |-> JStr("fetch failed"), stack |-> JStr("at run")])),
            JsonText(JDict([stack |-> JStr("at run")])),
            JsonText(JList(<<>>)), JsonText(JStr("ok")),
            PlainText("Cannot find package 'ai-browser-test'"), PlainText("")}

\* node prints a payload and exits with 0
Printed(p) == Process(TRUE, TRUE, 0, JsonText(JDict(p)), NoText)

\* node is not installed, prints something else, or fails
OtherOutcomes ==
    {Process(TRUE, FALSE, 0, NoText, NoText)}
    \cup {Process(TRUE, TRUE, 0, out, NoText) : out \in OtherStdouts}
    \cup {Process(TRUE, TRUE, 1, NoText, err) : err \in Stderrs}

(***************************************************************************)
(* The cells of basic_validation.py.                                       *)
(***************************************************************************)
NotRendered == [branch |-> "none", reads |-> {}]

\* a cell of persona_testing.py that has not run
NotRun == [ran |-> FALSE, items |-> <<>>, raised |-> "none"]

\* Step 2 of persona_testing.py before it runs, in a process where hash(name)
\* of persona i is hash[i]
NotMocked(hash) == [ran |-> FALSE, raised |-> "none", hash |-> hash]

\* the notebook is opened: no cell has run
BasicInit ==
    /\ pc = "step1"
    /\ screenshot_exists \in BOOLEAN
    /\ script_exists = FALSE
    /\ screenshot_available = FALSE
    /\ image_info = "unset"
    /\ process = NoProcess
    /\ raw_result = Unbound
    /\ result = NoneResult
    /\ raised = "none"
    /\ rendered = NotRendered

\* nothing of persona_testing.py, no earlier parse, no other execution
PersonaIdle == results = <<>> /\ table = NotRun /\ details = NotRun /\ step2 = NotMocked(<<>>)
SessionIdle == parses = <<>>
ConcurrentIdle == script_file = 0 /\ executions = <<>>

Init == BasicInit /\ PersonaIdle /\ SessionIdle /\ ConcurrentIdle

\* Step 1: check if screenshot exists
Step1 ==
    /\ pc = "step1"
    /\ screenshot_available' = screenshot_exists
    /\ pc' = "step2"
    /\ UNCHANGED <<screenshot_exists, script_exists, image_info, process, raw_result,
                   result, raised, rendered>>
    /\ UNCHANGED <<persona_vars, session_vars, concurrent_vars>>

\* Step 2: load the screenshot; Image.open raises on a file that is no image
Step2 ==
    /\ pc = "step2"
    /\ IF screenshot_available
       THEN \E opened \in BOOLEAN :
              IF opened
              THEN image_info' = "info" /\ pc' = "step3" /\ raised' = raised
              ELSE image_info' = image_info /\ pc' = "halted"
                   /\ raised' = "UnidentifiedImageError"
       ELSE image_info' = "None" /\ pc' = "step3" /\ raised' = raised
    /\ UNCHANGED <<screenshot_exists, script_exists, screenshot_available, process,
                   raw_result, result, rendered>>
    /\ UNCHANGED <<persona_vars, session_vars, concurrent_vars>>

\* mutant: the script is removed at the end of the inner try body, after
\* result = validated_result
FinallyOnReturn(exists, out) ==
    IF exists /\ out.exc = "none" /\ out.val.kind = "ValidationResult" THEN FALSE
    ELSE exists

\* finally: if script_path.exists(): script_path.unlink(), however the try
\* statement ended (out); exists tells whether the file is there
Finally(exists, out) == IF exists THEN FALSE ELSE exists

\* the script was written and the try statement has run
Ran(proc, run) ==
    /\ process' = proc
    /\ raw_result' = run.raw
    /\ result' = IF run.out.exc = "none" THEN run.out.val ELSE result
    /\ raised' = run.out.exc
    /\ pc' = IF run.out.exc = "none" THEN "step4" ELSE "halted"
    /\ script_exists' = Finally(TRUE, run.out)

\* Step 3: write the script, run node on it, parse its output, delete the
\* script; node prints one of bases with at most n keys replaced, or ends as
\* one of others
Step3From(bases, n, others) ==
    /\ pc = "step3"
    /\ IF image_info = "None"
       THEN /\ result' = NoneResult
            /\ pc' = "step4"
            /\ UNCHANGED <<script_exists, process, raw_result, raised>>
       ELSE \E written \in BOOLEAN :
              IF ~written
              THEN \* script_path.write_text is outside the try
                   /\ raised' = "PermissionError"
                   /\ pc' = "halted"
                   /\ UNCHANGED <<script_exists, process, raw_result, result>>
              ELSE \/ \E b \in bases, ovs \in OverrideSeqs(n, 1) :
                        Ran(Printed(Overridden(b, ovs)),
                            RunPipeline(Printed(Overridden(b, ovs))))
                   \/ \E proc \in others : Ran(proc, RunPipeline(proc))
    /\ UNCHANGED <<screenshot_exists, screenshot_available, image_info, rendered>>

Step3 ==
    /\ Step3From(Bases, MaxOverrides, OtherOutcomes)
    /\ UNCHANGED <<persona_vars, session_vars, concurrent_vars>>

\* Step 4: display the result
Display(r) ==
    IF r.kind = "ValidationResult"
    THEN IF r.inst.d.enabled.n # 0
         THEN [branch |-> IF r.inst.d.score.k # "null" THEN "results" ELSE "no score",
               reads |-> {"enabled", "score", "issues", "assessment", "reasoning"}
                         \cup (IF r.inst.d.score.k # "null"
                               THEN {"provider", "cached", "responseTime", "uncertainty",
                                     "confidence", "estimatedCost"}
                               ELSE {})]
         ELSE [branch |-> "disabled", reads |-> {"enabled", "message"}]
    ELSE IF r.kind = "dict" /\ "error" \in r.keys
    THEN [branch |-> "error", reads |-> {"error"}]
    ELSE [branch |-> "no results", reads |-> {}]

Step4 ==
    /\ pc = "step4"
    /\ rendered' = Display(result)
    /\ pc' = "done"
    /\ UNCHANGED <<screenshot_exists, script_exists, screenshot_available, image_info,
                   process, raw_result, result, raised>>
    /\ UNCHANGED <<persona_vars, session_vars, concurrent_vars>>

Next == Step1 \/ Step2 \/ Step3 \/ Step4

Spec == Init /\ [][Next]_vars

(***************************************************************************)
(* Python operations on values, as the cells of persona_testing.py use     *)
(* them.  Each returns a value or raises.                                  *)
(***************************************************************************)
\* hasattr(x, name), for the field names the cells ask for: only a model
\* instance has them
HasAttr(v, f) == v.k = "model" /\ f \in DOMAIN v.d

\* bool(x)
Truthy(v) ==
    CASE v.k = "null" -> FALSE
      [] v.k \in {"bool", "int", "float"} -> v.n # 0
      [] v.k = "str" -> v.s # ""
      [] v.k = "list" -> v.l # <<>>
      [] v.k = "dict" -> DOMAIN v.d # {}
      [] OTHER -> TRUE

\* x[key], key a string
Subscript(v, key) ==
    IF v.k = "dict"
    THEN IF key \in DOMAIN v.d THEN Return(v.d[key]) ELSE Raise("KeyError", {})
    ELSE Raise("TypeError", {})

\* x.f if hasattr(x, 'f') else x.get("f", default)
AttrOrGet(v, f, default) ==
    IF HasAttr(v, f) THEN Return(v.d[f]) ELSE DictGet(v, f, default)

\* x.f if hasattr(x, 'f') else x.get("f", default) if x else default
AttrOrGetIf(v, f, default) ==
    IF HasAttr(v, f) THEN Return(v.d[f])
    ELSE IF Truthy(v) THEN DictGet(v, f, default)
    ELSE Return(default)

\* len(x); the length of a string is the value "len" of that string
LenOf(v) ==
    CASE v.k = "list" -> Return(JInt(Len(v.l)))
      [] v.k = "dict" -> Return(JInt(Cardinality(DOMAIN v.d)))
      [] v.k = "str" -> Return(Val("len", 0, v.s, <<>>, <<>>))
      [] OTHER -> Raise("TypeError", {})

\* ", ".join(x): x is iterated and every item must be a str
Join(v) ==
    CASE v.k = "list" ->
            IF \A i \in DOMAIN v.l : v.l[i].k = "str" THEN Return(v)
            ELSE Raise("TypeError", {})
      [] v.k \in {"str", "dict"} -> Return(v)
      [] OTHER -> Raise("TypeError", {})

\* f"{x:.2f}", f"{x:.1f}"
FormatFloat(v) ==
    CASE v.k \in {"int", "float", "bool"} -> Return(v)
      [] v.k = "str" -> Raise("ValueError", {})
      [] OTHER -> Raise("TypeError", {})

\* x >= 8, x / 1000
Arithmetic(v) ==
    IF v.k \in {"int", "float", "bool"} THEN Return(v) ELSE Raise("TypeError", {})

\* the first exception of a sequence of outcomes, in the order of evaluation
FirstExc(outcomes) ==
    IF \A i \in DOMAIN outcomes : outcomes[i].exc = "none" THEN "none"
    ELSE outcomes[CHOOSE i \in DOMAIN outcomes :
                    /\ outcomes[i].exc # "none"
                    /\ \A j \in 1..(i - 1) : outcomes[j].exc = "none"].exc

\* a for loop over the items: it stops at the first item that raises
Loop(items) ==
    IF \A i \in DOMAIN items : items[i].exc = "none"
    THEN [ran |-> TRUE, items |-> items, raised |-> "none"]
    ELSE [ran |-> TRUE,
          items |-> SubSeq(items, 1,
                           (CHOOSE i \in DOMAIN items :
                              /\ items[i].exc # "none"
                              /\ \A j \in 1..(i - 1) : items[j].exc = "none") - 1),
          raised |-> FirstExc(items)]

\* mutant: model_dump(exclude_none=True)
RECURSIVE ModelDumpExcludeNone(_)
ModelDumpExcludeNone(v) ==
    CASE v.k = "model" -> JDict([f \in {g \in DOMAIN v.d : v.d[g].k # "null"} |->
                                   ModelDumpExcludeNone(v.d[f])])
      [] v.k = "dict" -> JDict([key \in DOMAIN v.d |-> ModelDumpExcludeNone(v.d[key])])
      [] v.k = "list" -> JList([i \in DOMAIN v.l |-> ModelDumpExcludeNone(v.l[i])])
      [] OTHER -> v

\* model_dump(): a model instance becomes a dict, field by field
RECURSIVE ModelDump(_)
ModelDump(v) ==
    CASE v.k = "model" -> JDict([f \in DOMAIN v.d |-> ModelDump(v.d[f])])
      [] v.k = "dict" -> JDict([key \in DOMAIN v.d |-> ModelDump(v.d[key])])
      [] v.k = "list" -> JList([i \in DOMAIN v.l |-> ModelDump(v.l[i])])
      [] OTHER -> v

(***************************************************************************)
(* persona_testing.py.  The result cells (Step 3, Step 4) take the list    *)
(* results: the documents that experiencePageAsPersona returns, one per    *)
(* persona, as dicts or as PersonaExperienceResult instances.  Epoch       *)
(* timestamps are written with one digit less, to stay within 32 bits in   *)
(* tenths.                                                                 *)
(***************************************************************************)
MaxResults == 3

\* the personas of the first cell
personas ==
    <<ValidateModel("Persona",
        JDict([name |-> JStr("Casual Gamer"), perspective |-> JStr("entertainment"),
               focus |-> Strs(<<"gameplay", "user-experience", "fun-factor">>)])).out,
      ValidateModel("Persona",
        JDict([name |-> JStr("Accessibility Advocate"),
               perspective |-> JStr("accessibility"),
               focus |-> Strs(<<"wcag-compliance", "keyboard-navigation",
                                "screen-reader-support">>)])).out,
      ValidateModel("Persona",
        JDict([name |-> JStr("Mobile User"), perspective |-> JStr("mobile-usability"),
               focus |-> Strs(<<"responsive-design", "touch-interactions",
                                "mobile-performance">>)])).out>>

\* the notes and the screenshot of a result, as Step 2 lays them out
InitialNote(persona_dict) ==
    JDict([step |-> JStr("initial_experience"), persona |-> persona_dict.d.name,
           observation |-> JStr("Arrived at page"),
           timestamp |-> JInt(123456789), elapsed |-> JInt(0)])
ReadingNote(persona_dict) ==
    JDict([step |-> JStr("reading"), persona |-> persona_dict.d.name,
           observation |-> JStr("Reading page content"),
           timestamp |-> JInt(123456790), elapsed |-> JInt(1000)])
PageLoadShot ==
    JDict([path |-> JStr("test-results/persona-page-load.png"),
           timestamp |-> JInt(123456789), elapsed |-> JInt(0),
           step |-> JStr("page-load"), description |-> JStr("Page loaded")])
ScrollShot ==
    JDict([path |-> JStr("test-results/persona-scroll.png"),
           timestamp |-> JInt(123456790), elapsed |-> JInt(1000)])

\* the evaluation of a result: no issue for the Casual Gamer
Evaluation(persona_dict) ==
    [MockEvaluation EXCEPT !.issues = IF persona_dict.d.name = JStr("Casual Gamer")
                                      THEN Strs(<<>>) ELSE @]

\* one result, for the dumped persona
ResultDocument(persona_dict) ==
    [persona |-> persona_dict,
     notes |-> JList(<<InitialNote(persona_dict), ReadingNote(persona_dict)>>),
     screenshots |-> JList(<<PageLoadShot>>),
     renderedCode |-> JDict([html |-> JStr("<html>...</html>"), css |-> JStr("body { ... }"),
                             domStructure |-> JDict(<<>>)]),
     gameState |-> JDict(<<>>),
     evaluation |-> JDict(Evaluation(persona_dict)),
     timestamp |-> JInt(123456789)]

\* persona.model_dump() if hasattr(persona, 'model_dump') else persona
PersonaDict(i) == ModelDump(personas[i])

\* the elements of results: complete results, results whose sequences are
\* not in elapsed order, results that fail validation, and a result that is
\* already an instance
Elements ==
    {JDict(ResultDocument(PersonaDict(1))),
     JDict([ResultDocument(PersonaDict(2)) EXCEPT
              !.notes = JList(<<ReadingNote(PersonaDict(2)), InitialNote(PersonaDict(2))>>),
              !.screenshots = JList(<<ScrollShot, PageLoadShot>>)]),
     JDict([ResultDocument(PersonaDict(3)) EXCEPT
              !.evaluation = JDict(Override(Evaluation(PersonaDict(3)), "reasoning", Absent))]),
     JDict([ResultDocument(PersonaDict(1)) EXCEPT
              !.evaluation = JDict(Override(Evaluation(PersonaDict(1)), "score", JStr("high")))]),
     JDict([ResultDocument(PersonaDict(2)) EXCEPT
              !.evaluation = JDict(Override(Override(DisabledComplete, "score", JFloat(30)),
                                            "issues", Strs(<<"contrast", "alt text">>)))]),
     JDict([ResultDocument(PersonaDict(3)) EXCEPT !.notes = JNull]),
     ValidateModel("PersonaExperienceResult", JDict(ResultDocument(PersonaDict(2)))).out,
     JDict([ResultDocument(PersonaDict(3)) EXCEPT
              !.evaluation = JDict(Override(FullPayload, "cached", JNull))]),
     JDict(Override(Override(ResultDocument(PersonaDict(1)), "evaluation", Absent),
                    "timeScale", JStr("human")))}

\* the lists of at most n elements
ResultLists(n) == UNION {[1..k -> Elements] : k \in 0..n}

\* x[a][b]
Subscript2(v, a, b) ==
    IF Subscript(v, a).exc # "none" THEN Subscript(v, a)
    ELSE Subscript(Subscript(v, a).val, b)

\* x.get(a, {}).get(b, default)
DictGet2(v, a, b, default) ==
    IF DictGet(v, a, JDict(<<>>)).exc # "none" THEN DictGet(v, a, JDict(<<>>))
    ELSE DictGet(DictGet(v, a, JDict(<<>>)).val, b, default)

\* len(x.get(a, []))
LenOfGet(v, a) ==
    IF DictGet(v, a, JList(<<>>)).exc # "none" THEN DictGet(v, a, JList(<<>>))
    ELSE LenOf(DictGet(v, a, JList(<<>>)).val)

\* the enabled flag of an evaluation (None when it has none)
EnabledOf(evaluation) ==
    IF evaluation.k \in {"model", "dict"} /\ "enabled" \in DOMAIN evaluation.d
    THEN evaluation.d.enabled ELSE JNull

\* f"{eval_score:.2f}" if eval_score is not None else "N/A"
ScoreCell(score) == IF score.k = "null" THEN Return(score) ELSE FormatFloat(score)

\* f"{eval_response_time / 1000:.2f}" if eval_response_time else "N/A"
DurationCell(response_time) ==
    IF Truthy(response_time) THEN Arithmetic(response_time) ELSE Return(JNull)

\* what a cell made of one element of results: exc is the exception that
\* left the loop body, validated tells whether the fields were read from a
\* PersonaExperienceResult instance (inst), reads are the fields of the
\* evaluation that were read and checked those that were tested before
Item(exc, validated, inst, evaluation, name, score, issues) ==
    [exc |-> exc, validated |-> validated, inst |-> inst,
     enabled |-> EnabledOf(evaluation), name |-> name, score |-> score,
     issues |-> issues, reads |-> {"score", "issues"}, checked |-> {}]

\* rows.append({...}): the row of the table
TableRow(validated, inst, evaluation, name, perspective, score, issues, response_time, notes_count, screenshots_count) ==
    Item(FirstExc(<<name, perspective, score, issues, response_time, notes_count,
                    screenshots_count, ScoreCell(score.val), LenOf(issues.val),
                    DurationCell(response_time.val)>>),
         validated, inst, evaluation, name.val, score.val, issues.val)

\* Step 3, the body of the loop: a validated model or a dict
Row(r) ==
    IF r.k = "model" /\ r.s = "PersonaExperienceResult"
    THEN TableRow(TRUE, r, r.d.evaluation,
                  Return(r.d.persona.d.name), Return(r.d.persona.d.perspective),
                  Return(IF Truthy(r.d.evaluation) THEN r.d.evaluation.d.score ELSE JNull),
                  Return(IF Truthy(r.d.evaluation) THEN r.d.evaluation.d.issues
                         ELSE JList(<<>>)),
                  Return(IF Truthy(r.d.evaluation) THEN r.d.evaluation.d.responseTime
                         ELSE JNull),
                  LenOf(r.d.notes), LenOf(r.d.screenshots))
    ELSE TableRow(FALSE, JNull, DictGet(r, "evaluation", JDict(<<>>)).val,
                  Subscript2(r, "persona", "name"), Subscript2(r, "persona", "perspective"),
                  DictGet2(r, "evaluation", "score", JNull),
                  DictGet2(r, "evaluation", "issues", JList(<<>>)),
                  DictGet2(r, "evaluation", "responseTime", JNull),
                  LenOfGet(r, "notes"), LenOfGet(r, "screenshots"))

\* Step 3: display persona test results
PersonaStep3 ==
    /\ table' = Loop([i \in DOMAIN results |-> Row(results[i])])
    /\ UNCHANGED <<results, details, step2>>
    /\ UNCHANGED <<basic_vars, session_vars, concurrent_vars>>

\* the names Step 4 binds for one element
Bound(exc, validated, inst, persona, evaluation, notes, screenshots) ==
    [exc |-> exc, validated |-> validated, inst |-> inst, persona |-> persona,
     evaluation |-> evaluation, notes |-> notes, screenshots |-> screenshots]

\* persona = validated.persona ... screenshots = validated.screenshots
FromInstance(validated) ==
    IF {"persona", "evaluation", "notes", "screenshots"} \subseteq DOMAIN validated.d
    THEN Bound("none", TRUE, validated, validated.d.persona, validated.d.evaluation,
               validated.d.notes, validated.d.screenshots)
    ELSE Bound("AttributeError", FALSE, JNull, JNull, JNull, JNull, JNull)

\* except Exception: fallback to dict access
FromDict(r) ==
    Bound("none", FALSE, JNull,
          DictGet(r, "persona", JDict(<<>>)).val, DictGet(r, "evaluation", JDict(<<>>)).val,
          DictGet(r, "notes", JList(<<>>)).val, DictGet(r, "screenshots", JList(<<>>)).val)

\* try: validated = PersonaExperienceResult.model_validate(result)
TryValidate(r, tried) ==
    IF tried.exc = "none" THEN FromInstance(tried.val)
    ELSE IF IsSubclass(tried.exc, "Exception") THEN FromDict(r)
    ELSE Bound(tried.exc, FALSE, JNull, JNull, JNull, JNull, JNull)

Bind(r) ==
    IF r.k = "dict" THEN TryValidate(r, ModelValidate("PersonaExperienceResult", r))
    ELSE IF r.k = "model" THEN FromInstance(r)
    ELSE Bound("AttributeError", FALSE, JNull, JNull, JNull, JNull, JNull)

\* notes[:5] shows at most this many notes
PreviewLen == 5

\* note.observation if hasattr(note, 'observation')
\* else note.get('observation', note.get('step', 'Unknown'))
NoteLine(note) ==
    IF HasAttr(note, "observation") THEN Return(note.d.observation)
    ELSE IF DictGet(note, "step", JStr("Unknown")).exc # "none"
         THEN DictGet(note, "step", JStr("Unknown"))
    ELSE DictGet(note, "observation", DictGet(note, "step", JStr("Unknown")).val)

\* the lines of notes[:5]: the slice is a new list (a dict has no slice, the
\* characters of a string have no .get)
NotesPreview(notes) ==
    CASE notes.k = "list" ->
            IF FirstExc([i \in 1..(IF Len(notes.l) < PreviewLen THEN Len(notes.l)
                                   ELSE PreviewLen) |-> NoteLine(notes.l[i])]) = "none"
            THEN Return(JList([i \in 1..(IF Len(notes.l) < PreviewLen THEN Len(notes.l)
                                         ELSE PreviewLen) |-> NoteLine(notes.l[i]).val]))
            ELSE Raise(FirstExc([i \in 1..(IF Len(notes.l) < PreviewLen THEN Len(notes.l)
                                           ELSE PreviewLen) |-> NoteLine(notes.l[i])]), {})
      [] notes.k = "str" ->
            IF notes.s = "" THEN Return(JList(<<>>)) ELSE Raise("AttributeError", {})
      [] OTHER -> Raise("TypeError", {})

\* score_color and score_display, if score is not None
ScoreDisplay(score) ==
    IF score.k = "null" THEN Return(score)
    ELSE IF Arithmetic(score).exc # "none" THEN Arithmetic(score)
    ELSE FormatFloat(score)

\* chr(10).join(f"- {issue}" for issue in issues) if issues else "None"
IssueLines(issues) ==
    IF ~Truthy(issues) \/ issues.k \in {"list", "str", "dict"} THEN Return(issues)
    ELSE Raise("TypeError", {})

\* the rest of the loop body: the values extracted and the mo.md call
Analysis(b, name, perspective, focus, score, issues) ==
    Item(IF b.exc # "none" THEN b.exc
         ELSE FirstExc(<<name, perspective, focus, score, issues, ScoreDisplay(score.val),
                         Join(focus.val), LenOf(b.notes), NotesPreview(b.notes),
                         LenOf(issues.val), IssueLines(issues.val),
                         LenOf(b.screenshots)>>),
         b.validated, b.inst, b.evaluation, name.val, score.val, issues.val)

Extract(b) ==
    Analysis(b, AttrOrGet(b.persona, "name", JStr("Unknown")),
             AttrOrGet(b.persona, "perspective", JStr("Unknown")),
             AttrOrGet(b.persona, "focus", JList(<<>>)),
             AttrOrGetIf(b.evaluation, "score", JNull),
             AttrOrGetIf(b.evaluation, "issues", JList(<<>>)))

\* Step 4, the body of the loop
Detail(r) == Extract(Bind(r))

\* mutant: notes.reverse() in place of the slice notes[:5]
AfterDisplayReversed(r) ==
    IF r.k \in {"dict", "model"} /\ "notes" \in DOMAIN r.d /\ r.d.notes.k = "list"
    THEN [r EXCEPT !.d.notes.l = [i \in DOMAIN r.d.notes.l |->
                                    r.d.notes.l[Len(r.d.notes.l) + 1 - i]]]
    ELSE r

\* the element of results after the loop body: the body binds names, slices
\* (notes[:5]) and joins, which build new objects, and calls no method that
\* changes the element
AfterDisplay(r) == r

\* Step 4: detailed persona analysis
PersonaStep4 ==
    /\ details' = Loop([i \in DOMAIN results |-> Detail(results[i])])
    /\ results' = [i \in DOMAIN results |-> AfterDisplay(results[i])]
    /\ UNCHANGED <<table, step2>>
    /\ UNCHANGED <<basic_vars, session_vars, concurrent_vars>>

\* basic_validation.py is not open
BasicIdle == BasicInit /\ ~screenshot_exists

PersonaInit ==
    /\ results \in ResultLists(MaxResults)
    /\ table = NotRun
    /\ details = NotRun
    /\ step2 = NotMocked(<<>>)
    /\ BasicIdle /\ SessionIdle /\ ConcurrentIdle

PersonaNext == PersonaStep3 \/ PersonaStep4

PersonaSpec == PersonaInit /\ [][PersonaNext]_vars

(***************************************************************************)
(* Step 2 of persona_testing.py: the mock results.  The cell is plain      *)
(* Python, not an f-string, so every {{ ... }} of lines 159-203 is a set   *)
(* display whose one element is the dict display inside it.  hash(name) is *)
(* salted per process: it is an input, one integer per persona.            *)
(***************************************************************************)
HashModulus == 20

HashValues == {-21, -1, 0, 7, 19, 20}

\* hash(x): defined for everything but the mutable containers
Hashable(v) == v.k \notin {"dict", "list", "set"}

\* {x}: the set display with the one element x
SetDisplay(v) ==
    IF Hashable(v) THEN Return(Val("set", 0, "", <<v>>, <<>>))
    ELSE Raise("TypeError", {})

\* 7.5 + (hash(persona_dict["name"]) % 20) / 10, in tenths; % has the sign
\* of the modulus
MockScore(hash) == JFloat(75 + (hash % HashModulus))

\* the dict inside the outer braces
MockDocument(persona_dict, hash) ==
    [ResultDocument(persona_dict) EXCEPT
       !.evaluation = JDict([Evaluation(persona_dict) EXCEPT !.score = MockScore(hash)])]

\* the set displays of the statement, in the order they are evaluated
Braces(persona_dict, hash) ==
    <<SetDisplay(InitialNote(persona_dict)), SetDisplay(ReadingNote(persona_dict)),
      SetDisplay(PageLoadShot), SetDisplay(JDict(<<>>)),
      SetDisplay(MockDocument(persona_dict, hash).renderedCode), SetDisplay(JDict(<<>>)),
      SetDisplay(MockDocument(persona_dict, hash).evaluation),
      SetDisplay(JDict(MockDocument(persona_dict, hash)))>>

\* result = {{ ... }}: the body of the loop, as an item of Loop
MockResult(persona_dict, hash) ==
    [exc |-> FirstExc(Braces(persona_dict, hash)),
     val |-> IF FirstExc(Braces(persona_dict, hash)) = "none"
             THEN Braces(persona_dict, hash)[Len(Braces(persona_dict, hash))].val
             ELSE JNull]

MockInit ==
    /\ step2 \in {NotMocked(hash) : hash \in [DOMAIN personas -> HashValues]}
    /\ results = <<>> /\ table = NotRun /\ details = NotRun
    /\ BasicIdle /\ SessionIdle /\ ConcurrentIdle

\* what Step 2 leaves: the cell returns results when the loop ended normally
Mocked(loop) ==
    /\ step2' = [step2 EXCEPT !.ran = TRUE, !.raised = loop.raised]
    /\ results' = IF loop.raised = "none"
                  THEN [i \in DOMAIN loop.items |-> loop.items[i].val]
                  ELSE results

\* Step 2: run persona-based testing (the mock results)
PersonaStep2 ==
    /\ ~step2.ran
    /\ Mocked(Loop([i \in DOMAIN personas |-> MockResult(PersonaDict(i), step2.hash[i])]))
    /\ UNCHANGED <<table, details>>
    /\ UNCHANGED <<basic_vars, session_vars, concurrent_vars>>

MockNext == PersonaStep2

MockSpec == MockInit /\ [][MockNext]_vars

(***************************************************************************)
(* A session: the cells of basic_validation.py run and are run again, with *)
(* the result cells of persona_testing.py on one list of results.  parses  *)
(* is the history of the parses of stdout (json.loads and model_validate)  *)
(* that Step 3 made: the text, the raw_result and the result it bound.     *)
(***************************************************************************)
MaxRuns == 3

SessionBases == {MockEvaluation, OutOfRangePayload}
SessionOthers ==
    {Process(TRUE, FALSE, 0, NoText, NoText),
     Process(TRUE, TRUE, 0, PlainText("Validation completed"), NoText),
     Process(TRUE, TRUE, 0, JsonText(JList(<<>>)), NoText),
     Process(TRUE, TRUE, 1, NoText, PlainText("Cannot find package 'ai-browser-test'"))}

\* one PersonaExperienceResult instance and one dict
SessionResults ==
    <<ModelValidate("PersonaExperienceResult", JDict(ResultDocument(PersonaDict(2)))).val,
      JDict(ResultDocument(PersonaDict(1)))>>

SessionInit ==
    /\ BasicInit
    /\ results = SessionResults /\ table = NotRun /\ details = NotRun
    /\ step2 = NotMocked(<<>>)
    /\ SessionIdle /\ ConcurrentIdle

\* Step 3 of this run reached json.loads(process.stdout)
ParsedNow(proc, exc) == exc # "PermissionError" /\ proc.launched /\ proc.returncode = 0

SessionStep3 ==
    /\ Len(parses) < MaxRuns
    /\ Step3From(SessionBases, 0, SessionOthers)
    /\ parses' = IF image_info # "None" /\ ParsedNow(process', raised')
                 THEN Append(parses, [stdout |-> process'.stdout, raw |-> raw_result',
                                      result |-> result'])
                 ELSE parses
    /\ UNCHANGED <<persona_vars, concurrent_vars>>

\* marimo runs a cell again: Step 3 (and Step 4 after it), or Step 4 alone
Rerun ==
    /\ pc = "done"
    /\ pc' \in {"step3", "step4"}
    /\ UNCHANGED <<screenshot_exists, script_exists, screenshot_available, image_info,
                   process, raw_result, result, raised, rendered>>
    /\ UNCHANGED <<persona_vars, session_vars, concurrent_vars>>

SessionNext ==
    Step1 \/ Step2 \/ SessionStep3 \/ Step4 \/ Rerun \/ PersonaStep3 \/ PersonaStep4

SessionSpec == SessionInit /\ [][SessionNext]_vars

(***************************************************************************)
(* Executions of Step 3 of basic_validation.py that run at the same time   *)
(* in one working directory.  script_file is temp_validate.mjs: 0 when it *)
(* is not there, else the execution whose node_script it holds.  Each      *)
(* execution                                                               *)
(* goes through the statements of the cell: write_text, subprocess.run     *)
(* (node reads the file when it starts), the parse of what the process     *)
(* printed, and in the finally clause exists() and unlink().  own is what  *)
(* node prints for the script the execution wrote itself.                  *)
(***************************************************************************)
MaxExecutions == 2

Executors == 1..MaxExecutions

ConcurrentOutcomes ==
    {Printed(MockEvaluation), Printed(OutOfRangePayload),
     Process(TRUE, TRUE, 1, NoText,
             JsonText(JDict([error |-> JStr("fetch failed"), stack |-> JStr("at run")])))}

\* node temp_validate.mjs when the file is not there
ScriptMissing ==
    Process(TRUE, TRUE, 1, NoText, PlainText("Cannot find module 'temp_validate.mjs'"))

Execution(own) ==
    [pc |-> "write_text", own |-> own, ran |-> 0, process |-> NoProcess,
     result |-> NoneResult, raised |-> "none", removed |-> FALSE]

ConcurrentInit ==
    /\ script_file = 0
    /\ executions \in [Executors -> {Execution(own) : own \in ConcurrentOutcomes}]
    /\ BasicIdle /\ PersonaIdle /\ SessionIdle

\* the other executions that have written their script and not yet run it
Waiting(i) == {j \in Executors \ {i} : executions[j].pc = "run"}

\* script_path.write_text(node_script)
WriteText(i) ==
    /\ executions[i].pc = "write_text"
    /\ script_file' = i
    /\ executions' = [executions EXCEPT ![i].pc = "run"]
    /\ UNCHANGED <<basic_vars, persona_vars, session_vars>>

\* subprocess.run(["node", str(script_path)], ...): node starts and loads
\* whatever the file holds now
Run(i) ==
    /\ executions[i].pc = "run"
    /\ executions' = [executions EXCEPT
                        ![i].pc = "parse",
                        ![i].ran = IF script_file = 0 THEN 0 ELSE script_file,
                        ![i].process = IF script_file = 0 THEN ScriptMissing
                                       ELSE executions[script_file].own]
    /\ UNCHANGED script_file
    /\ UNCHANGED <<basic_vars, persona_vars, session_vars>>

\* the process has ended: the rest of the try statement
Parse(i) ==
    /\ executions[i].pc = "parse"
    /\ executions' = [executions EXCEPT
                        ![i].pc = "exists",
                        ![i].result = RunPipeline(executions[i].process).out.val]
    /\ UNCHANGED script_file
    /\ UNCHANGED <<basic_vars, persona_vars, session_vars>>

\* finally: if script_path.exists()
Exists(i) ==
    /\ executions[i].pc = "exists"
    /\ executions' = [executions EXCEPT
                        ![i].pc = IF script_file = 0 THEN "done" ELSE "unlink"]
    /\ UNCHANGED script_file
    /\ UNCHANGED <<basic_vars, persona_vars, session_vars>>

\* script_path.unlink(): FileNotFoundError when the file is gone by now
Unlink(i) ==
    /\ executions[i].pc = "unlink"
    /\ IF script_file = 0
       THEN /\ executions' = [executions EXCEPT ![i].pc = "halted",
                                                ![i].raised = "FileNotFoundError"]
            /\ UNCHANGED script_file
       ELSE /\ executions' = [executions EXCEPT ![i].pc = "done",
                                                ![i].removed = Waiting(i) # {}]
            /\ script_file' = 0
    /\ UNCHANGED <<basic_vars, persona_vars, session_vars>>

ConcurrentNext ==
    \E i \in Executors : WriteText(i) \/ Run(i) \/ Parse(i) \/ Exists(i) \/ Unlink(i)

ConcurrentSpec == ConcurrentInit /\ [][ConcurrentNext]_vars

(***************************************************************************)
(* Vocabulary of the properties.                                           *)
(***************************************************************************)
CanonicalKeys == DOMAIN ValidationResultSchema
RequiredWhenEnabled == {"provider", "reasoning", "responseTime"}

\* json.loads returned: raw_result is bound
Parsed == process.launched /\ process.returncode = 0 /\ process.stdout.json
\* ... to a JSON object
IsPayload == Parsed /\ raw_result.k = "dict"
\* Step 3 bound result to a ValidationResult instance / to an error value
IsInstance == result.kind = "ValidationResult"
Failed == result.kind = "dict" /\ "error" \in result.keys

Has(key, v) == key \in DOMAIN raw_result.d /\ raw_result.d[key] = v
Number(v) == v.k \in {"int", "float"}
Within(v, lo, hi) == Tenths(lo) <= v.n /\ v.n <= Tenths(hi)
ErrorsAt(loc) == {e \in result.errs : e.loc = loc}
RangeErrors == {"greater_than_equal", "less_than_equal"}
\* the raw document with key removed / restricted to the declared fields
Without(keys) == JDict([k \in DOMAIN raw_result.d \ keys |-> raw_result.d[k]])

\* the same JSON value: numbers by value, lists element by element, an
\* object against a model instance on the fields both have
RECURSIVE SameValue(_, _)
SameValue(a, b) ==
    CASE Number(a) -> Number(b) /\ a.n = b.n
      [] a.k = "list" -> /\ b.k = "list"
                         /\ Len(a.l) = Len(b.l)
                         /\ \A i \in DOMAIN a.l : SameValue(a.l[i], b.l[i])
      [] a.k = "dict" -> /\ b.k \in {"dict", "model"}
                         /\ b.k = "dict" => DOMAIN a.d = DOMAIN b.d
                         /\ \A key \in DOMAIN a.d \cap DOMAIN b.d : SameValue(a.d[key], b.d[key])
      [] OTHER -> a = b

\* v has the JSON type the declaration ft names; an object for a model has
\* its required fields, each of its type
RECURSIVE WellTyped(_, _)
TypeMatches(ft, v) ==
    \/ ft.optional /\ v.k = "null"
    \/ CASE ft.type = "float" -> Number(v)
         [] ft.type = "list" -> v.k = "list" /\ \A i \in DOMAIN v.l : v.l[i].k = ft.elem
         [] ft.type = "dict" -> /\ v.k = "dict"
                                /\ ft.elem = "float" => \A key \in DOMAIN v.d : Number(v.d[key])
         [] ft.type = "model" -> WellTyped(ft.sub, v)
         [] OTHER -> v.k = ft.type
WellTyped(cls, v) ==
    /\ v.k = "dict"
    /\ \A f \in DOMAIN Schema(cls) :
         IF f \in DOMAIN v.d THEN TypeMatches(Schema(cls)[f], v.d[f])
         ELSE ~Schema(cls)[f].required

\* every numeric field that is there is a number in its range
RECURSIVE InRange(_, _)
InRange(cls, v) ==
    \A f \in DOMAIN Schema(cls) \cap DOMAIN v.d :
       LET ft == Schema(cls)[f]
           x == v.d[f]
       IN /\ (ft.hasGe \/ ft.hasLe) /\ x.k # "null" =>
                Number(x) /\ (ft.hasGe => x.n >= ft.ge) /\ (ft.hasLe => x.n <= ft.le)
          /\ ft.type = "model" /\ x.k = "dict" => InRange(ft.sub, x)

\* enabled=true, the three required fields present (with a value), every
\* numeric field in range
EnabledComplete ==
    /\ IsPayload
    /\ Has("enabled", JBool(TRUE))
    /\ \A f \in RequiredWhenEnabled : f \in DOMAIN raw_result.d /\ raw_result.d[f].k # "null"
    /\ InRange("ValidationResult", raw_result)
    /\ Number(raw_result.d.responseTime) /\ raw_result.d.responseTime.n >= 0

FieldsEqualInput ==
    /\ IsInstance
    /\ \A f \in DOMAIN raw_result.d \cap CanonicalKeys :
         SameValue(raw_result.d[f], result.inst.d[f])

(***************************************************************************)
(* C1 as stated: every payload with enabled=true, the required fields      *)
(* present and the numeric fields in range parses, and every field of the  *)
(* result equals the input value, nothing coerced.                         *)
(***************************************************************************)
C1_AsStated == EnabledComplete => FieldsEqualInput

\* C1, amended: when moreover every field that is present has the JSON type
\* its declaration names (nested objects complete), the payload parses and
\* every field of the result equals the input value.
C1_ExactOnTypedPayloads ==
    EnabledComplete /\ WellTyped("ValidationResult", raw_result) => FieldsEqualInput

C1_Witness ==
    /\ EnabledComplete /\ WellTyped("ValidationResult", raw_result) /\ IsInstance
    /\ Has("score", JFloat(82))
    /\ Has("estimatedCost", JDict(CostDoc))

(***************************************************************************)
(* C2: a score that is a number outside [0,10] fails with a range error on *)
(* score and yields no ValidationResult; the scores 0 and 10 are accepted  *)
(* when the other fields are valid.                                        *)
(***************************************************************************)
ScoreIs(lo, hi) ==
    /\ IsPayload /\ "score" \in DOMAIN raw_result.d /\ Number(raw_result.d.score)
    /\ Within(raw_result.d.score, lo, hi)
ScoreOutside ==
    /\ IsPayload /\ "score" \in DOMAIN raw_result.d /\ Number(raw_result.d.score)
    /\ ~Within(raw_result.d.score, 0, 10)
OthersValid(key) == Ok(ValidateModel("ValidationResult", Without({key})))

C2_ScoreRange ==
    /\ ScoreOutside =>
         /\ Failed /\ ~IsInstance /\ result.inst = JNull
         /\ \E e \in ErrorsAt(<<"score">>) : e.type \in RangeErrors
    /\ (ScoreIs(0, 0) \/ ScoreIs(10, 10)) /\ OthersValid("score") =>
         /\ IsInstance
         /\ result.inst.d.score.n = raw_result.d.score.n

C2_Witness == ScoreOutside /\ raw_result.d.score = JFloat(105) /\ Failed /\ pc = "done"

(***************************************************************************)
(* C3: uncertainty and confidence outside [0,1] fail with a range error on *)
(* that field, each on its own; a score in (1,10] gets no error and is not *)
(* rescaled.                                                               *)
(***************************************************************************)
UnitFields == {"uncertainty", "confidence"}
UnitOutside(f) ==
    /\ IsPayload /\ f \in DOMAIN raw_result.d /\ Number(raw_result.d[f])
    /\ ~Within(raw_result.d[f], 0, 1)
UnitInside(f) ==
    /\ IsPayload /\ f \in DOMAIN raw_result.d /\ Number(raw_result.d[f])
    /\ Within(raw_result.d[f], 0, 1)

C3_UnitRanges ==
    /\ \A f \in UnitFields :
         /\ UnitOutside(f) =>
              /\ Failed /\ ~IsInstance
              /\ \E e \in ErrorsAt(<<f>>) : e.type \in RangeErrors
         /\ UnitInside(f) => ErrorsAt(<<f>>) = {}
    /\ ScoreIs(0, 10) /\ raw_result.d.score.n > Tenths(1) =>
         /\ ErrorsAt(<<"score">>) = {}
         /\ IsInstance => result.inst.d.score.n = raw_result.d.score.n

C3_Witness ==
    /\ UnitOutside("uncertainty") /\ UnitOutside("confidence")
    /\ Has("score", JFloat(15))
    /\ Failed /\ ErrorsAt(<<"score">>) = {}

(***************************************************************************)
(* C4: with enabled=true, a payload that lacks provider, reasoning or      *)
(* responseTime fails with a missing error that names the field, and       *)
(* yields no ValidationResult.                                             *)
(***************************************************************************)
C4_MissingRequired ==
    \A f \in RequiredWhenEnabled :
       IsPayload /\ Has("enabled", JBool(TRUE)) /\ f \notin DOMAIN raw_result.d =>
          /\ Failed /\ ~IsInstance /\ result.inst = JNull
          /\ Err(<<f>>, "missing") \in result.errs

C4_Witness ==
    /\ IsPayload /\ Has("enabled", JBool(TRUE))
    /\ "reasoning" \notin DOMAIN raw_result.d
    /\ Failed /\ pc = "done"

(***************************************************************************)
(* C5: a payload with enabled=false parses although provider, reasoning    *)
(* and responseTime are absent; the result has enabled=false, the message  *)
(* of the payload and reasoning "", and Step 4 renders the disabled        *)
(* branch.                                                                 *)
(***************************************************************************)
\* the rest of the payload is valid: it parses once the three fields are there
DisabledBare ==
    /\ IsPayload /\ Has("enabled", JBool(FALSE))
    /\ RequiredWhenEnabled \cap DOMAIN raw_result.d = {}
    /\ Ok(ValidateModel("ValidationResult",
                        JDict([k \in DOMAIN raw_result.d \cup RequiredWhenEnabled |->
                                 IF k \in DOMAIN raw_result.d THEN raw_result.d[k]
                                 ELSE DisabledComplete[k]])))

C5_DisabledParses ==
    DisabledBare =>
       /\ IsInstance
       /\ result.inst.d.enabled = JBool(FALSE)
       /\ result.inst.d.reasoning = JStr("")
       /\ "message" \in DOMAIN raw_result.d => result.inst.d.message = raw_result.d.message
       /\ pc = "done" => rendered.branch = "disabled"

(***************************************************************************)
(* C6: a key that no model declares never makes parsing fail: when the     *)
(* payload without its undeclared keys parses, the payload parses too,     *)
(* with the same value in every declared field.                            *)
(***************************************************************************)
HasUnknownKey == IsPayload /\ DOMAIN raw_result.d \ CanonicalKeys # {}

C6_UnknownTolerated ==
    HasUnknownKey =>
       LET declared == ValidateModel("ValidationResult", Without(UnknownKeys))
       IN Ok(declared) =>
             /\ IsInstance
             /\ \A f \in CanonicalKeys : result.inst.d[f] = declared.out.d[f]

C6_Witness ==
    /\ HasUnknownKey /\ IsInstance
    /\ "schemaVersion" \in DOMAIN raw_result.d

PipelineFailure ==
    \/ ~process.launched
    \/ process.returncode # 0
    \/ ~process.stdout.json
    \/ raw_result.k # "dict"
    \/ ~Ok(ValidateModel("ValidationResult", raw_result))

C8_NoEscape ==
    process.attempted =>
       /\ raised = "none"
       /\ pc \in {"step4", "done"}
       /\ PipelineFailure => Failed

C8_Witness == process.attempted /\ ~process.launched /\ Failed /\ pc = "done"

(***************************************************************************)
(* C9: when Step 3 has run the pipeline, result is either a                *)
(* ValidationResult or an error value with an "error" entry, never both;   *)
(* it is a ValidationResult only after exit code 0, decoded JSON and a     *)
(* validation without errors; an error value carries no validated field.   *)
(***************************************************************************)
C9_AllOrNothing ==
    process.attempted =>
       /\ IsInstance # Failed
       /\ IsInstance =>
            /\ Parsed
            /\ Ok(ValidateModel("ValidationResult", raw_result))
            /\ result.keys = {} /\ result.errs = {}
       /\ Failed =>
            /\ result.inst = JNull
            /\ result.keys \subseteq {"error", "raw_data", "raw_output"}
            /\ "raw_data" \in result.keys => result.raw_data = raw_result

C9_Witness ==
    /\ IsPayload /\ Failed /\ result.source = "Validation error"
    /\ "raw_data" \in result.keys /\ Has("provider", JInt(7))

(***************************************************************************)
(* C10 as stated: text that is no JSON, and JSON that is no object, fail   *)
(* with one kind of error value, which is not the kind that the field      *)
(* errors of an object get.  The kind of an error value is the prefix of   *)
(* its message and its set of keys.                                        *)
(***************************************************************************)
Kind(r) == <<r.source, r.keys>>
FieldErrorKind == <<"Validation error", {"error", "raw_data"}>>
NotJSON == process.launched /\ process.returncode = 0 /\ ~process.stdout.json
NotObject == Parsed /\ raw_result.k # "dict"

C10_AsStated ==
    /\ NotJSON \/ NotObject => Failed /\ Kind(result) # FieldErrorKind
    /\ IsPayload /\ Failed => Kind(result) = FieldErrorKind

\* C10, amended: text that is no JSON fails as "JSON parse error" with the
\* output attached, a kind of its own; JSON that is no object fails as
\* "Validation error", the kind of the field errors, and differs from them
\* only in its single error entry, model_type at the empty location (every
\* field error names a field).
C10_TwoKinds ==
    /\ NotJSON => Failed /\ Kind(result) = <<"JSON parse error", {"error", "raw_output"}>>
    /\ NotObject =>
         /\ Failed /\ Kind(result) = FieldErrorKind
         /\ result.errs = {Err(<<>>, "model_type")}
    /\ IsPayload /\ Failed =>
         /\ Kind(result) = FieldErrorKind
         /\ result.errs # {}
         /\ \A e \in result.errs : e.loc # <<>>

C10_Witness == NotObject /\ raw_result.k = "list" /\ Failed /\ pc = "done"

(***************************************************************************)
(* C11: Step 4 of persona_testing.py processes results element by element: *)
(* an element that fails validation keeps no other element from being      *)
(* processed, and the i-th outcome is that of the i-th element.            *)
(***************************************************************************)
\* the persona name of an element, as a dict or as an instance
NameOf(r) == r.d.persona.d.name
\* the element fails PersonaExperienceResult.model_validate
C11_BatchIsolation ==
    details.ran =>
       /\ details.raised = "none"
       /\ Len(details.items) = Len(results)
       /\ \A i \in DOMAIN results : details.items[i].name = NameOf(results[i])

(***************************************************************************)
(* C12: round trip.  Every value that parsing produced (the                *)
(* PersonaExperienceResult of Step 4, its Persona and its ValidationResult)*)
(* is parsed again from its model_dump without an error and to an equal    *)
(* value; the persona dumped by Step 2 is parsed back to the persona of    *)
(* the first cell.                                                         *)
(***************************************************************************)
RoundTrips(cls, inst) == ValidateModel(cls, ModelDump(inst)) = Valid(inst)

\* the items that Step 4 validated itself
ValidatedItems ==
    {i \in DOMAIN details.items : details.items[i].validated /\ results[i].k = "dict"}

C12_RoundTrip ==
    \A i \in ValidatedItems :
       /\ RoundTrips("PersonaExperienceResult", details.items[i].inst)
       /\ RoundTrips("Persona", details.items[i].inst.d.persona)
       /\ details.items[i].inst.d.evaluation.k = "model" =>
             RoundTrips("ValidationResult", details.items[i].inst.d.evaluation)
       /\ \A j \in DOMAIN personas :
             results[i].d.persona = ModelDump(personas[j]) =>
                details.items[i].inst.d.persona = personas[j]

C12_Witness ==
    \E i \in ValidatedItems :
       /\ details.items[i].inst.d.evaluation.k = "model"
       /\ details.items[i].inst.d.evaluation.d.cached = JNull
       /\ details.items[i].inst.d.evaluation.d.estimatedCost.k = "model"
       /\ details.items[i].inst.d.persona = personas[3]

(***************************************************************************)
(* C14: order preservation.  In every PersonaExperienceResult that Step 4  *)
(* validated, notes, screenshots, persona.focus and evaluation.issues hold *)
(* the elements of the input, as many and in the order of the input, also  *)
(* when the notes are not in the order of elapsed.                         *)
(***************************************************************************)
\* the validated list holds the elements of the input list, in its order
SameSequence(input, validated) ==
    /\ input.k = "list" /\ validated.k = "list"
    /\ Len(validated.l) = Len(input.l)
    /\ \A j \in DOMAIN input.l : SameValue(input.l[j], validated.l[j])

\* the notes of the input are not in the order of elapsed
OutOfElapsedOrder(notes) ==
    \E j \in DOMAIN notes.l, k \in DOMAIN notes.l :
       j < k /\ notes.l[j].d.elapsed.n > notes.l[k].d.elapsed.n

C14_OrderPreserved ==
    \A i \in ValidatedItems :
       /\ "notes" \in DOMAIN results[i].d =>
             SameSequence(results[i].d.notes, details.items[i].inst.d.notes)
       /\ "screenshots" \in DOMAIN results[i].d =>
             SameSequence(results[i].d.screenshots, details.items[i].inst.d.screenshots)
       /\ "focus" \in DOMAIN results[i].d.persona.d =>
             SameSequence(results[i].d.persona.d.focus,
                          details.items[i].inst.d.persona.d.focus)
       /\ details.items[i].inst.d.evaluation.k = "model"
          /\ "issues" \in DOMAIN results[i].d.evaluation.d =>
             SameSequence(results[i].d.evaluation.d.issues,
                          details.items[i].inst.d.evaluation.d.issues)

C14_Witness ==
    \E i \in ValidatedItems :
       /\ OutOfElapsedOrder(results[i].d.notes)
       /\ Len(details.items[i].inst.d.screenshots.l) = 2
       /\ Len(details.items[i].inst.d.persona.d.focus.l) = 3
       /\ details.items[i].inst.d.notes.l[1].d.elapsed = JInt(1000)

(***************************************************************************)
(* C17: gated reads.  A display cell shows the score or the issues of an   *)
(* evaluation only when the result was validated and its enabled is true:  *)
(* in every row of the table of Step 3 and every analysis of Step 4 of the *)
(* persona notebook, a score that is shown comes from a validated result   *)
(* whose evaluation is enabled.                                            *)
(***************************************************************************)
Gated(item) ==
    item.score.k # "null" => item.validated /\ item.enabled = JBool(TRUE)

C17_GatedReads ==
    /\ \A i \in DOMAIN table.items : Gated(table.items[i])
    /\ \A i \in DOMAIN details.items : Gated(details.items[i])

(***************************************************************************)
(* C13: defaults.  In every ValidationResult that Step 3 produced, a field *)
(* that the payload does not have holds its default: cached is false,      *)
(* issues is the empty list, score, assessment, estimatedCost,             *)
(* uncertainty, confidence, error and message are None; an estimatedCost   *)
(* without currency has currency "USD".                                    *)
(***************************************************************************)
NoneByDefault ==
    {"score", "assessment", "estimatedCost", "uncertainty", "confidence", "error",
     "message"}

StatedDefault(f) ==
    CASE f = "cached" -> JBool(FALSE)
      [] f = "issues" -> JList(<<>>)
      [] f \in NoneByDefault -> JNull

\* the payload has an estimatedCost object that has no currency
CostWithoutCurrency ==
    /\ "estimatedCost" \in DOMAIN raw_result.d
    /\ raw_result.d.estimatedCost.k = "dict"
    /\ "currency" \notin DOMAIN raw_result.d.estimatedCost.d

C13_Defaults ==
    IsInstance =>
       /\ \A f \in (NoneByDefault \cup {"cached", "issues"}) \ DOMAIN raw_result.d :
             result.inst.d[f] = StatedDefault(f)
       /\ CostWithoutCurrency => result.inst.d.estimatedCost.d.currency = JStr("USD")

C13_Witness ==
    /\ IsInstance
    /\ CostWithoutCurrency
    /\ (NoneByDefault \ {"estimatedCost"}) \cup {"cached", "issues"}
          \subseteq CanonicalKeys \ DOMAIN raw_result.d
    /\ result.inst.d.cached = JBool(FALSE)
    /\ result.inst.d.estimatedCost.d.currency = JStr("USD")

(***************************************************************************)
(* C15: responseTime.  Every ValidationResult that Step 3 produced has an  *)
(* integer responseTime that is not negative, and a payload whose          *)
(* responseTime is negative or is not an integer yields no                 *)
(* ValidationResult.                                                       *)
(***************************************************************************)
NonNegativeInteger(v) == v.k = "int" /\ v.n >= 0

C15_NonNegativeInteger ==
    /\ IsInstance => NonNegativeInteger(result.inst.d.responseTime)
    /\ IsPayload /\ "responseTime" \in DOMAIN raw_result.d
       /\ ~NonNegativeInteger(raw_result.d.responseTime) => ~IsInstance

(***************************************************************************)
(* C18 as stated: a payload with enabled=false that has score, issues or   *)
(* assessment populated and is otherwise valid yields a ValidationResult   *)
(* that retains the values and carries a warning flag, and the flag is on  *)
(* no other ValidationResult.  The flag is an attribute of the result      *)
(* besides the declared fields.                                            *)
(***************************************************************************)
Evaluative == {"score", "issues", "assessment"}

Populated(f) ==
    /\ f \in DOMAIN raw_result.d
    /\ raw_result.d[f].k # "null"
    /\ raw_result.d[f] # JList(<<>>)

\* enabled=false, one of the three populated, each of them of its declared
\* type and in range, and the payload without them valid
DisabledPopulated ==
    /\ IsPayload /\ Has("enabled", JBool(FALSE))
    /\ \E f \in Evaluative : Populated(f)
    /\ \A f \in Evaluative \cap DOMAIN raw_result.d :
          TypeMatches(ValidationResultSchema[f], raw_result.d[f])
    /\ InRange("ValidationResult", raw_result)
    /\ Ok(ValidateModel("ValidationResult", Without(Evaluative)))

Retained ==
    /\ IsInstance
    /\ \A f \in Evaluative \cap DOMAIN raw_result.d :
          SameValue(raw_result.d[f], result.inst.d[f])

Flagged == IsInstance /\ DOMAIN result.inst.d \ CanonicalKeys # {}

C18_AsStated ==
    /\ DisabledPopulated => Retained /\ Flagged
    /\ IsInstance /\ ~DisabledPopulated => ~Flagged

\* C18, amended: a payload with enabled=false that has score, issues or
\* assessment populated and is otherwise valid is not rejected; the
\* ValidationResult retains the populated values unchanged and nothing
\* marks it: it has the declared fields only and no error is recorded.
C18_RetainedUnmarked ==
    DisabledPopulated =>
       /\ Retained
       /\ DOMAIN result.inst.d = CanonicalKeys
       /\ result.errs = {} /\ result.keys = {}
       /\ pc = "done" => rendered.branch = "disabled"

C18_Witness ==
    /\ DisabledPopulated /\ IsInstance /\ pc = "done"
    /\ Populated("score") /\ result.inst.d.score.k = "float"
    /\ result.inst.d.enabled = JBool(FALSE)

C19_Immutable ==
    [][/\ pc # "step3" => result' = result
       /\ results' = results]_vars

C19_Witness ==
    /\ pc = "step4" /\ rendered.branch = "results"
    /\ result.kind = "ValidationResult"
    /\ Len(result.inst.d.issues.l) = 1
    /\ table.ran /\ details.ran /\ Len(details.items) = 2

(***************************************************************************)
(* C20: no interference.  Of the executions of Step 3 that share the       *)
(* working directory, each runs the script it wrote itself, ends without   *)
(* an exception with the result it has when it runs alone, and removes no  *)
(* script that another execution has written and not yet run.              *)
(***************************************************************************)
\* the result of execution i when it runs alone
Alone(i) == RunPipeline(executions[i].own).out.val

C20_NoInterference ==
    \A i \in Executors :
       /\ executions[i].pc \in {"exists", "unlink", "done", "halted"} =>
             executions[i].ran = i /\ executions[i].result = Alone(i)
       /\ executions[i].raised = "none"
       /\ ~executions[i].removed

(***************************************************************************)
(* C21: cleanup.  When Step 3 has written temp_validate.mjs and its try    *)
(* statement has run, however it ended (a ValidationResult, a validation   *)
(* error, a JSON parse error, a non-zero exit code, node that could not be *)
(* started), the script is gone when the step is over, and the screenshot, *)
(* the other file the notebook knows, is where Step 1 found it.            *)
(***************************************************************************)
Step3Over == pc \in {"step4", "done", "halted"}

\* the ways the try statement of Step 3 ends
Ending ==
    CASE ~process.attempted -> "not run"
      [] ~process.launched -> "launch"
      [] process.returncode # 0 -> "exit code"
      [] result.kind = "ValidationResult" -> "result"
      [] result.source = "Validation error" -> "validation error"
      [] result.source = "JSON parse error" -> "parse error"
      [] OTHER -> "other"

C21_Cleanup ==
    /\ Step3Over /\ process.attempted =>
          /\ Ending \in {"launch", "exit code", "result", "validation error", "parse error"}
          /\ ~script_exists
    /\ pc # "step1" => screenshot_exists = screenshot_available

C21_Witness ==
    /\ pc = "done" /\ Ending = "launch"
    /\ result.kind = "dict" /\ result.source = "FileNotFoundError"
    /\ ~script_exists /\ screenshot_exists

(***************************************************************************)
(* C22: skip.  When the screenshot file does not exist, no cell fails:     *)
(* Step 1 sets screenshot_available to false, Step 2 binds image_info to   *)
(* None, Step 3 binds result to None, writes no script and starts no       *)
(* process, and Step 4 renders "No Results".                               *)
(***************************************************************************)
C22_SkipWithoutScreenshot ==
    ~screenshot_exists =>
       /\ pc # "halted" /\ raised = "none"
       /\ pc # "step1" => ~screenshot_available
       /\ pc \notin {"step1", "step2"} => image_info = "None"
       /\ ~script_exists /\ process = NoProcess /\ raw_result = Unbound
       /\ pc \in {"step4", "done"} => result.kind = "None"
       /\ pc = "done" => rendered.branch = "no results" /\ rendered.reads = {}

C22_Witness ==
    /\ ~screenshot_exists /\ pc = "done"
    /\ image_info = "None" /\ result.kind = "None"
    /\ rendered.branch = "no results"

(***************************************************************************)
(* C23: mock results.  When Step 2 of persona_testing.py has run, it has   *)
(* raised nothing and results holds one dict per persona, in the order of  *)
(* personas, each with the dumped persona, each valid as a                 *)
(* PersonaExperienceResult, with an evaluation score from 7.5 to 9.4.      *)
(***************************************************************************)
C23_MockResults ==
    step2.ran =>
       /\ step2.raised = "none"
       /\ Len(results) = Len(personas)
       /\ \A i \in DOMAIN personas :
             /\ results[i].k = "dict"
             /\ results[i].d.persona = PersonaDict(i)
             /\ Ok(ValidateModel("PersonaExperienceResult", results[i]))
             /\ 75 <= results[i].d.evaluation.d.score.n
             /\ results[i].d.evaluation.d.score.n <= 94
====
